---- MODULE Spec2Model ----
(***************************************************************************)
(* Query-filter compiler of BaseModel (db/models/BaseModel.ts):            *)
(* parseFilters, parseFiltersInclude, parseSorting, parseAttributes.       *)
(*                                                                         *)
(* JavaScript strings are sequences of one-character strings, JavaScript   *)
(* values are records tagged by t, and a query object is the sequence of   *)
(* its own enumerable [k, v] entries in Object.keys order.                 *)
(***************************************************************************)
EXTENDS Integers, Sequences, FiniteSets, TLC

(* ------------------------------------------------------------------ *)
(* JavaScript values                                                  *)
(* ------------------------------------------------------------------ *)
Undefined == [t |-> "undefined"]
Null == [t |-> "null"]
NaN == [t |-> "nan"]
Num(n) == [t |-> "num", n |-> n]
Str(s) == [t |-> "str", s |-> s]
Bool(b) == [t |-> "bool", b |-> b]
Arr(a) == [t |-> "arr", a |-> a]
Obj(o) == [t |-> "obj", o |-> o]
Entry(k, v) == [k |-> k, v |-> v]

(* ToBoolean: the falsy values are undefined, null, false, 0, NaN and "" *)
Truthy(v) ==
    CASE v.t = "undefined" -> FALSE
      [] v.t = "null" -> FALSE
      [] v.t = "nan" -> FALSE
      [] v.t = "bool" -> v.b
      [] v.t = "num" -> v.n # 0
      [] v.t = "str" -> v.s # <<>>
      [] OTHER -> TRUE

(* v == null: true of null and undefined only *)
LooseEqNull(v) == v.t \in {"null", "undefined"}

(* typeof v === 'object' (null included) *)
TypeofObject(v) == v.t \in {"obj", "arr", "null"}

(* ------------------------------------------------------------------ *)
(* String primitives                                                  *)
(* ------------------------------------------------------------------ *)
Digits == <<"0", "1", "2", "3", "4", "5", "6", "7", "8", "9">>

IsDigit(c) == \E d \in 1..10 : Digits[d] = c

DigitVal(c) == (CHOOSE d \in 1..10 : Digits[d] = c) - 1

(* s.startsWith(p) *)
StartsWith(s, p) == Len(s) >= Len(p) /\ SubSeq(s, 1, Len(p)) = p

(* sub occurs in s at 1-based position i *)
OccursAt(s, sub, i) ==
    /\ i >= 1
    /\ i + Len(sub) - 1 <= Len(s)
    /\ SubSeq(s, i, i + Len(sub) - 1) = sub

(* s.includes(sub) *)
Includes(s, sub) == \E i \in 1..(Len(s) + 1) : OccursAt(s, sub, i)

(* s.indexOf(sub), 1-based, 0 when absent *)
IndexOf(s, sub) ==
    IF Includes(s, sub)
    THEN CHOOSE i \in 1..(Len(s) + 1) :
            OccursAt(s, sub, i) /\ \A j \in 1..(i - 1) : ~OccursAt(s, sub, j)
    ELSE 0

(* s.replace(sub, ''): a string pattern replaces its first occurrence only *)
RemoveFirst(s, sub) ==
    LET i == IndexOf(s, sub)
    IN IF i = 0 THEN s
       ELSE SubSeq(s, 1, i - 1) \o SubSeq(s, i + Len(sub), Len(s))

(* s.substring(n) for 0 <= n *)
SubstringFrom(s, n) == SubSeq(s, n + 1, Len(s))

(* s.split(sep) for a one-character separator: '' splits to [''] *)
RECURSIVE SplitFrom(_, _, _, _)
SplitFrom(s, sep, i, cur) ==
    IF i > Len(s) THEN <<cur>>
    ELSE IF s[i] = sep THEN <<cur>> \o SplitFrom(s, sep, i + 1, <<>>)
    ELSE SplitFrom(s, sep, i + 1, Append(cur, s[i]))

Split(s, sep) == SplitFrom(s, sep, 1, <<>>)

(* s.at(-1): the last character, undefined for '' *)
AtLast(s) == IF Len(s) = 0 THEN Undefined ELSE Str(<<s[Len(s)]>>)

(* s.slice(0, -1) *)
SliceDropLast(s) == IF Len(s) = 0 THEN <<>> ELSE SubSeq(s, 1, Len(s) - 1)

(* decimal digits of a natural number *)
RECURSIVE NatToStr(_)
NatToStr(n) ==
    IF n < 10 THEN <<Digits[n + 1]>>
    ELSE NatToStr(n \div 10) \o <<Digits[(n % 10) + 1]>>

RECURSIVE DigitsToNat(_)
DigitsToNat(s) ==
    IF Len(s) = 0 THEN 0
    ELSE 10 * DigitsToNat(SliceDropLast(s)) + DigitVal(s[Len(s)])

(* StringToNumber on the strings of the model: '' is 0, a run of decimal  *)
(* digits is its value, anything else is NaN                              *)
StringToNumber(s) ==
    IF \A j \in 1..Len(s) : IsDigit(s[j]) THEN Num(DigitsToNat(s)) ELSE NaN

(* unary plus (ToNumber) *)
ToNumber(v) ==
    CASE v.t = "undefined" -> NaN
      [] v.t = "null" -> Num(0)
      [] v.t = "nan" -> NaN
      [] v.t = "bool" -> Num(IF v.b THEN 1 ELSE 0)
      [] v.t = "num" -> v
      [] v.t = "str" -> StringToNumber(v.s)
      [] v.t = "arr" ->
            IF Len(v.a) = 0 THEN Num(0)
            ELSE IF Len(v.a) = 1 /\ v.a[1].t = "num" THEN v.a[1]
            ELSE IF Len(v.a) = 1 /\ v.a[1].t = "str" THEN StringToNumber(v.a[1].s)
            ELSE NaN
      [] OTHER -> NaN

(* a * b on numbers: NaN is absorbing *)
Times(a, b) == IF a.t = "nan" \/ b.t = "nan" THEN NaN ELSE Num(a.n * b.n)

ObjectObject ==
    <<"[", "o", "b", "j", "e", "c", "t", " ", "O", "b", "j", "e", "c", "t", "]">>

(* ToString as used by a template literal *)
RECURSIVE ToStr(_)
RECURSIVE JoinComma(_)
JoinComma(a) ==
    IF Len(a) = 0 THEN <<>>
    ELSE LET head == IF a[1].t \in {"null", "undefined"} THEN <<>> ELSE ToStr(a[1])
         IN IF Len(a) = 1 THEN head ELSE head \o <<",">> \o JoinComma(Tail(a))

ToStr(v) ==
    CASE v.t = "undefined" -> <<"u", "n", "d", "e", "f", "i", "n", "e", "d">>
      [] v.t = "null" -> <<"n", "u", "l", "l">>
      [] v.t = "nan" -> <<"N", "a", "N">>
      [] v.t = "bool" -> IF v.b THEN <<"t", "r", "u", "e">> ELSE <<"f", "a", "l", "s", "e">>
      [] v.t = "num" -> IF v.n < 0 THEN <<"-">> \o NatToStr(-v.n) ELSE NatToStr(v.n)
      [] v.t = "str" -> v.s
      [] v.t = "arr" -> JoinComma(v.a)
      [] OTHER -> ObjectObject

(* a split that keeps the value whole *)
SplitValueWhole(v, sep) == Arr(<<v>>)

(* does v.split(...) exist: only strings have a split method *)
HasSplit(v) == v.t = "str"

(* v.split(sep) as a JavaScript array of strings *)
SplitValue(v, sep) ==
    LET parts == Split(v.s, sep)
    IN Arr([j \in 1..Len(parts) |-> Str(parts[j])])

(* ------------------------------------------------------------------ *)
(* Strings of the program                                             *)
(* ------------------------------------------------------------------ *)
K_sort == <<"s", "o", "r", "t">>
K_attributes == <<"a", "t", "t", "r", "i", "b", "u", "t", "e", "s">>
K_page == <<"p", "a", "g", "e">>
K_size == <<"s", "i", "z", "e">>
IncludePrefix == <<"i", "n", "c", "l", "u", "d", "e", "_">>

S_in == <<"_", "_", "i", "n">>
S_con == <<"_", "_", "c", "o", "n">>
S_sw == <<"_", "_", "s", "w">>
S_ew == <<"_", "_", "e", "w">>
S_is == <<"_", "_", "i", "s">>
S_ne == <<"_", "_", "n", "e">>
S_lte == <<"_", "_", "l", "t", "e">>
S_gte == <<"_", "_", "g", "t", "e">>
S_nin == <<"_", "_", "n", "i", "n">>
S_bet == <<"_", "_", "b", "e", "t">>

F_id == <<"i", "d">>
F_status == <<"s", "t", "a", "t", "u", "s">>
F_created_at == <<"c", "r", "e", "a", "t", "e", "d", "_", "a", "t">>
F_updated_at == <<"u", "p", "d", "a", "t", "e", "d", "_", "a", "t">>
F_deleted_at == <<"d", "e", "l", "e", "t", "e", "d", "_", "a", "t">>
F_date == <<"d", "a", "t", "e">>
F_timestamp == <<"t", "i", "m", "e", "s", "t", "a", "m", "p">>
Dash == <<"-">>
Pipe == "|"
Comma == ","

(* array.includes(x) for an array of strings held as a sequence *)
ArrIncludes(arr, x) == \E j \in 1..Len(arr) : arr[j] = x

(* BaseModel.isDateField *)
commonDateFields == <<F_created_at, F_updated_at, F_deleted_at, F_date, F_timestamp>>

isDateField(fieldName) == ArrIncludes(commonDateFields, fieldName)

(* the inline date list of the __is branch of the earlier copy of      *)
(* parseFilters (part_000)                                             *)
inlineDateFields ==
    << <<"c", "r", "e", "a", "t", "e", "d", "_", "a", "t">>,
       <<"u", "p", "d", "a", "t", "e", "d", "_", "a", "t">>,
       <<"c", "o", "n", "t", "a", "c", "t", "_", "d", "a", "t", "e">>,
       <<"p", "e", "r", "i", "o", "d", "_", "s", "t", "a", "r", "t">>,
       <<"p", "e", "r", "i", "o", "d", "_", "e", "n", "d">>,
       <<"g", "e", "n", "e", "r", "a", "t", "e", "d", "_", "o", "n">>,
       <<"a", "c", "c", "e", "p", "t", "_", "d", "a", "t", "e">>,
       <<"f", "i", "r", "s", "t", "_", "c", "o", "n", "t", "a", "c", "t", "_", "d", "a", "t", "e">>,
       <<"e", "n", "d", "_", "d", "a", "t", "e">>,
       <<"r", "e", "t", "r", "a", "c", "t", "e", "d", "_", "d", "a", "t", "e">>,
       <<"f", "r", "o", "m", "_", "d", "a", "t", "e">>,
       <<"f", "o", "r", "m", "_", "d", "a", "t", "e">>,
       <<"e", "f", "f", "e", "c", "t", "i", "v", "e", "_", "d", "a", "t", "e">>,
       <<"r", "e", "f", "e", "r", "r", "a", "l", "_", "s", "e", "r", "v", "i", "c", "e", "_", "a", "c", "c", "e", "p", "t", "_", "d", "a", "t", "e">>,
       <<"s", "e", "r", "v", "i", "c", "e", "_", "e", "n", "d", "e", "d", "_", "d", "a", "t", "e">>,
       <<"s", "u", "p", "e", "r", "v", "i", "s", "o", "r", "_", "s", "i", "g", "n", "a", "t", "u", "r", "e", "_", "d", "a", "t", "e">>,
       <<"r", "e", "f", "e", "r", "r", "a", "l", "_", "d", "a", "t", "e">>,
       <<"i", "n", "i", "t", "_", "p", "l", "a", "n", "_", "d", "a", "t", "e">>,
       <<"i", "n", "i", "t", "_", "p", "l", "a", "n", "_", "s", "u", "p", "e", "r", "v", "i", "s", "o", "r", "_", "d", "a", "t", "e">>,
       <<"r", "e", "v", "i", "e", "w", "_", "p", "l", "a", "n", "_", "d", "a", "t", "e">>,
       <<"r", "e", "v", "i", "e", "w", "_", "p", "l", "a", "n", "_", "f", "a", "_", "d", "a", "t", "e">>,
       <<"r", "e", "v", "i", "e", "w", "_", "p", "l", "a", "n", "_", "s", "u", "p", "e", "r", "v", "i", "s", "o", "r", "_", "d", "a", "t", "e">>,
       <<"i", "n", "c", "i", "d", "e", "n", "t", "_", "d", "a", "t", "e">>,
       <<"c", "i", "_", "d", "a", "t", "e">>,
       <<"t", "i", "m", "e">>,
       <<"c", "i", "_", "t", "i", "m", "e">>,
       <<"c", "p", "s", "_", "s", "e", "n", "t", "_", "r", "e", "f", "e", "r", "r", "a", "l", "_", "d", "a", "t", "e">>,
       <<"r", "e", "f", "e", "r", "r", "a", "l", "_", "r", "e", "c", "e", "i", "v", "e", "d", "_", "d", "a", "t", "e">>,
       <<"a", "c", "c", "e", "p", "t", "e", "d", "_", "d", "a", "t", "e">>,
       <<"i", "n", "c", "a", "r", "c", "e", "r", "a", "t", "e", "d", "_", "f", "r", "o", "m", "_", "d", "a", "t", "e">>,
       <<"i", "n", "c", "a", "r", "c", "e", "r", "a", "t", "e", "d", "_", "e", "n", "d", "_", "d", "a", "t", "e">>,
       <<"p", "a", "r", "o", "l", "e", "_", "f", "r", "o", "m", "_", "d", "a", "t", "e">>,
       <<"p", "a", "r", "o", "l", "e", "_", "e", "n", "d", "_", "d", "a", "t", "e">>,
       <<"s", "t", "a", "r", "t", "_", "d", "a", "t", "e", "_", "o", "f", "_", "p", "r", "e", "v", "i", "o", "u", "s", "_", "s", "e", "r", "v", "i", "c", "e", "s", "_", "m", "e", "n", "t", "a", "l", "_", "h", "i", "s", "t", "o", "r", "y">>,
       <<"e", "n", "d", "_", "d", "a", "t", "e", "_", "o", "f", "_", "p", "r", "e", "v", "i", "o", "u", "s", "_", "s", "e", "r", "v", "i", "c", "e", "s", "_", "m", "e", "n", "t", "a", "l", "_", "h", "i", "s", "t", "o", "r", "y">>,
       <<"s", "t", "a", "r", "t", "_", "d", "a", "t", "e", "_", "o", "f", "_", "c", "u", "r", "r", "e", "n", "t", "_", "s", "e", "r", "v", "i", "c", "e", "s", "_", "m", "e", "n", "t", "a", "l", "_", "h", "i", "s", "t", "o", "r", "y">>,
       <<"e", "n", "d", "_", "d", "a", "t", "e", "_", "o", "f", "_", "c", "u", "r", "r", "e", "n", "t", "_", "s", "e", "r", "v", "i", "c", "e", "s", "_", "m", "e", "n", "t", "a", "l", "_", "h", "i", "s", "t", "o", "r", "y">>,
       <<"p", "r", "e", "v", "i", "o", "u", "s", "_", "d", "a", "t", "e", "_", "o", "d", "_", "s", "u", "b", "s", "t", "a", "n", "c", "e", "s", "_", "u", "s", "e", "d">>,
       <<"c", "u", "r", "r", "e", "n", "t", "_", "d", "a", "t", "e", "_", "o", "d", "_", "s", "u", "b", "s", "t", "a", "n", "c", "e", "s", "_", "u", "s", "e", "d">>,
       <<"s", "t", "a", "r", "t", "_", "d", "a", "t", "e", "_", "p", "r", "e", "v", "i", "o", "u", "s", "_", "c", "h", "e", "m", "i", "c", "a", "l", "_", "d", "e", "p", "e", "n", "d", "e", "n", "c", "y">>,
       <<"e", "n", "d", "_", "d", "a", "t", "e", "_", "p", "r", "e", "v", "i", "o", "u", "s", "_", "c", "h", "e", "m", "i", "c", "a", "l", "_", "d", "e", "p", "e", "n", "d", "e", "n", "c", "y">>,
       <<"s", "t", "a", "r", "t", "_", "d", "a", "t", "e", "_", "c", "u", "r", "r", "e", "n", "t", "_", "c", "h", "e", "m", "i", "c", "a", "l", "_", "d", "e", "p", "e", "n", "d", "e", "n", "c", "y">>,
       <<"e", "n", "d", "_", "d", "a", "t", "e", "_", "c", "u", "r", "r", "e", "n", "t", "_", "c", "h", "e", "m", "i", "c", "a", "l", "_", "d", "e", "p", "e", "n", "d", "e", "n", "c", "y">>,
       <<"c", "p", "s", "_", "i", "n", "v", "o", "l", "v", "e", "m", "e", "n", "t", "_", "s", "t", "a", "r", "t", "_", "d", "a", "t", "e">>,
       <<"c", "p", "s", "_", "i", "n", "v", "o", "l", "v", "e", "m", "e", "n", "t", "_", "e", "n", "d", "_", "d", "a", "t", "e">>,
       <<"u", "n", "d", "i", "s", "c", "l", "o", "s", "e", "d", "_", "c", "p", "s", "_", "i", "n", "v", "o", "l", "v", "e", "m", "e", "n", "t", "_", "s", "t", "a", "r", "t", "_", "d", "a", "t", "e">>,
       <<"u", "n", "d", "i", "s", "c", "l", "o", "s", "e", "d", "_", "c", "p", "s", "_", "i", "n", "v", "o", "l", "v", "e", "m", "e", "n", "t", "_", "e", "n", "d", "_", "d", "a", "t", "e">> >>

(* the fields whose __lte / __gte keep their operator in the earlier    *)
(* copy; on any other field the value is assigned as a plain equality   *)
F_service_date == <<"s", "e", "r", "v", "i", "c", "e", "_", "d", "a", "t", "e">>
lteFields == <<F_service_date, <<"c", "o", "u", "p", "o", "n", "_", "a", "p", "p", "l", "i", "c", "a", "b", "l", "e", "_", "f", "r", "o", "m">>>>
gteFields == <<F_service_date, <<"c", "o", "u", "p", "o", "n", "_", "a", "p", "p", "l", "i", "c", "a", "b", "l", "e", "_", "t", "o">>>>

(* the two copies of BaseModel in the repository *)
Copies == {"part_009", "part_000"}

(* the date test of the __is branch of parseFilters in each copy *)
DateFieldIn(copy, base_key) ==
    IF copy = "part_009" THEN isDateField(base_key) ELSE ArrIncludes(inlineDateFields, base_key)

(* the inline date list of parseFiltersInclude *)
includeDateFields == <<F_created_at, F_updated_at>>

(* ------------------------------------------------------------------ *)
(* moment: an instant is a calendar day (the ten characters           *)
(* YYYY-MM-DD) and the milliseconds into that day; utc tells whether   *)
(* the day is counted in UTC or in the server's local zone             *)
(* ------------------------------------------------------------------ *)
MsPerDay == 86400000

IsoDay(s) ==
    /\ Len(s) >= 10
    /\ \A j \in {1, 2, 3, 4, 6, 7, 9, 10} : IsDigit(s[j])
    /\ s[5] = "-" /\ s[8] = "-"

(* HH:MM after the T of an ISO string, in milliseconds; 0 for a bare day *)
IsoMs(s) ==
    IF Len(s) >= 16 /\ s[11] = "T" /\ IsDigit(s[12]) /\ IsDigit(s[13])
                    /\ s[14] = ":" /\ IsDigit(s[15]) /\ IsDigit(s[16])
    THEN (DigitsToNat(SubSeq(s, 12, 13)) * 60 + DigitsToNat(SubSeq(s, 15, 16))) * 60000
    ELSE 0

EpochDay == <<"1", "9", "7", "0", "-", "0", "1", "-", "0", "1">>

(* moment(v) / moment.utc(v): a string is parsed as ISO 8601, a number  *)
(* below one day of milliseconds is an instant of 1970-01-01, anything  *)
(* else of the model gives an invalid moment                            *)
Moment(v, utc) ==
    IF v.t = "str" /\ IsoDay(v.s) /\ (Len(v.s) = 10 \/ (Len(v.s) = 16 /\ v.s[11] = "T"))
    THEN [t |-> "moment", valid |-> TRUE, utc |-> utc,
          day |-> SubSeq(v.s, 1, 10), ms |-> IsoMs(v.s)]
    ELSE IF v.t = "num" /\ v.n >= 0 /\ v.n < MsPerDay
    THEN [t |-> "moment", valid |-> TRUE, utc |-> utc, day |-> EpochDay, ms |-> v.n]
    ELSE [t |-> "moment", valid |-> FALSE, utc |-> utc, day |-> <<>>, ms |-> 0]

(* startOf('day') that keeps the time of day *)
startOfDayKeepsTime(m) == m

startOfDay(m) == IF m.valid THEN [m EXCEPT !.ms = 0] ELSE m

endOfDay(m) == IF m.valid THEN [m EXCEPT !.ms = MsPerDay - 1] ELSE m

(* ------------------------------------------------------------------ *)
(* FindOptions                                                        *)
(* ------------------------------------------------------------------ *)
(* { where: {} } *)
EmptyFilters ==
    [where |-> <<>>, order |-> Undefined, attributes |-> Undefined,
     offset |-> Undefined, limit |-> Undefined, include |-> Undefined]

(* { [Op.x]: arg }, and a bare value assigned to where[field] as op "eq" *)
Clause(op, arg) == [op |-> op, arg |-> arg]

HasField(where, k) == \E j \in 1..Len(where) : where[j].k = k

FieldIndex(where, k) == CHOOSE j \in 1..Len(where) : where[j].k = k

(* where[k] *)
WhereGet(where, k) == IF HasField(where, k) THEN where[FieldIndex(where, k)].v ELSE Undefined

(* an assignment that keeps the value a property already has *)
WhereSetKeepsFirst(where, k, v) ==
    IF HasField(where, k) THEN where ELSE Append(where, Entry(k, v))

(* where[k] = v: an existing property keeps its place, a new one is last *)
WhereSet(where, k, v) ==
    IF HasField(where, k)
    THEN [where EXCEPT ![FieldIndex(where, k)] = Entry(k, v)]
    ELSE Append(where, Entry(k, v))

(* query[key] *)
Get(entries, key) ==
    IF \E j \in 1..Len(entries) : entries[j].k = key
    THEN entries[CHOOSE j \in 1..Len(entries) : entries[j].k = key].v
    ELSE Undefined

(* can Object.keys(v) be taken: null and undefined raise a TypeError *)
KeysThrows(v) == v.t \in {"null", "undefined"}

(* the own enumerable entries of v in Object.keys order *)
OwnEntries(v) ==
    CASE v.t = "obj" -> v.o
      [] v.t = "arr" -> [j \in 1..Len(v.a) |-> Entry(NatToStr(j - 1), v.a[j])]
      [] v.t = "str" -> [j \in 1..Len(v.s) |-> Entry(NatToStr(j - 1), Str(<<v.s[j]>>))]
      [] OTHER -> <<>>

(* the outcome of evaluating a piece of code: its value, or a throw *)
Ok(val) == [thrown |-> FALSE, val |-> val]
Thrown(val) == [thrown |-> TRUE, val |-> val]

(* ------------------------------------------------------------------ *)
(* parseSorting                                                       *)
(* ------------------------------------------------------------------ *)
Pair(f, d) == [f |-> f, d |-> d]

DefaultOrder == Arr(<<Pair(F_id, "DESC")>>)

(* item.at(-1) and item.slice exist on strings and on arrays only: any  *)
(* other item raises a TypeError inside the map callback                *)
SortItemThrows(item) == item.t \notin {"str", "arr"}

(* itemData without the special case of status *)
SortItemDataNoInversion(s) ==
    IF AtLast(s) = Str(Dash)
    THEN Pair(SliceDropLast(s), "DESC")
    ELSE Pair(s, "ASC")

(* itemData that keeps the trailing - in the field name *)
SortItemDataKeepsDash(s) ==
    IF s = F_status \/ s = F_status \o Dash
    THEN Pair(F_status, IF AtLast(s) = Str(Dash) THEN "ASC" ELSE "DESC")
    ELSE IF AtLast(s) = Str(Dash)
         THEN Pair(s, "DESC")
         ELSE Pair(s, "ASC")

(* itemData of one string token *)
SortItemData(s) ==
    IF s = F_status \/ s = F_status \o Dash
    THEN Pair(F_status, IF AtLast(s) = Str(Dash) THEN "ASC" ELSE "DESC")
    ELSE IF AtLast(s) = Str(Dash)
         THEN Pair(SliceDropLast(s), "DESC")
         ELSE Pair(s, "ASC")

(* the push guard without the allow-list test *)
SortItemKeptUnchecked(item, allow) ==
    /\ item.t = "str"
    /\ SortItemData(item.s).d \in {"ASC", "DESC"}

(* the guard of parsed.push(itemData): an array item yields an array as  *)
(* itemData[0], which no allow-list of strings includes                  *)
SortItemKept(item, allow) ==
    /\ item.t = "str"
    /\ ArrIncludes(allow, SortItemData(item.s).f)
    /\ SortItemData(item.s).d \in {"ASC", "DESC"}

RECURSIVE SortParsed(_, _)
SortParsed(parameters, allow) ==
    IF Len(parameters) = 0 THEN <<>>
    ELSE (IF SortItemKept(parameters[1], allow)
          THEN <<SortItemData(parameters[1].s)>>
          ELSE <<>>) \o SortParsed(Tail(parameters), allow)

(* return parsed.length ? parsed : [['id', 'DESC']] *)
SortFallback(parsed) == IF Len(parsed) # 0 THEN Arr(parsed) ELSE DefaultOrder

parseSorting(query, allow) ==
    IF query.t \notin {"str", "arr"} THEN Ok(DefaultOrder)
    ELSE LET parameters == IF query.t = "str" THEN SplitValue(query, Pipe).a ELSE query.a
         IN IF \E j \in 1..Len(parameters) : SortItemThrows(parameters[j])
            THEN Thrown(Undefined)
            ELSE Ok(SortFallback(SortParsed(parameters, allow)))

(* parseAttributes that does not split a string *)
parseAttributesUnsplit(query) ==
    IF query.t = "str" THEN Arr(<<query>>)
    ELSE IF query.t = "arr" THEN query
    ELSE Arr(<<>>)

(* ------------------------------------------------------------------ *)
(* parseAttributes                                                    *)
(* ------------------------------------------------------------------ *)
parseAttributes(query) ==
    IF query.t = "str" THEN SplitValue(query, Pipe)
    ELSE IF query.t = "arr" THEN query
    ELSE Arr(<<>>)

(* ------------------------------------------------------------------ *)
(* Filter branches: each takes the FindOptions built so far and gives  *)
(* Ok(filters') or Thrown(filters)                                     *)
(* ------------------------------------------------------------------ *)
SetWhere(f, base_key, clause) == [f EXCEPT !.where = WhereSet(f.where, base_key, clause)]

(* SplitBranch without the allow-list test *)
SplitBranchNoAllowList(f, key, v, allow, suffix, op, sep) ==
    LET base_key == RemoveFirst(key, suffix)
    IN IF ~HasSplit(v) THEN Thrown(f)
       ELSE Ok([f EXCEPT !.where = WhereSet(f.where, base_key, [op |-> op, arg |-> SplitValue(v, sep)])])

(* filters.where[base_key] = { [op]: query[key].split(sep) } under the  *)
(* allow-list test; a value without a split method raises               *)
SplitBranch(f, key, v, allow, suffix, op, sep) ==
    LET base_key == RemoveFirst(key, suffix)
    IN IF ~ArrIncludes(allow, base_key) THEN Ok(f)
       ELSE IF ~HasSplit(v) THEN Thrown(f)
       ELSE Ok(SetWhere(f, base_key, Clause(op, SplitValue(v, sep))))

(* filters.where[base_key] = { [op]: arg } under the allow-list test *)
PlainBranch(f, key, allow, suffix, op, arg) ==
    LET base_key == RemoveFirst(key, suffix)
    IN IF ~ArrIncludes(allow, base_key) THEN Ok(f)
       ELSE Ok(SetWhere(f, base_key, Clause(op, arg)))

(* the __is branch: a date field widens to the day of the value *)
IsBranch(f, key, v, allow, dateField, utc) ==
    LET base_key == RemoveFirst(key, S_is)
    IN IF ~ArrIncludes(allow, base_key) THEN Ok(f)
       ELSE IF dateField
       THEN Ok(SetWhere(f, base_key,
                Clause("between", Arr(<<startOfDay(Moment(v, utc)), endOfDay(Moment(v, utc))>>))))
       ELSE Ok(SetWhere(f, base_key, Clause("eq", v)))

(* the chain with the __ne branch testing the shorter token __n, which  *)
(* also occurs in __nin                                                 *)
CommonBranchesShortToken(f, key, v, allow, dateField, utc) ==
    IF Includes(key, S_in) THEN [matched |-> TRUE, r |-> SplitBranch(f, key, v, allow, S_in, "in", Pipe)]
    ELSE IF Includes(key, S_con)
    THEN [matched |-> TRUE,
          r |-> PlainBranch(f, key, allow, S_con, "iLike", Str(<<"%">> \o ToStr(v) \o <<"%">>))]
    ELSE IF Includes(key, S_sw) THEN [matched |-> TRUE, r |-> PlainBranch(f, key, allow, S_sw, "startsWith", v)]
    ELSE IF Includes(key, S_ew) THEN [matched |-> TRUE, r |-> PlainBranch(f, key, allow, S_ew, "endsWith", v)]
    ELSE IF Includes(key, S_is) THEN [matched |-> TRUE, r |-> IsBranch(f, key, v, allow, dateField, utc)]
    ELSE IF Includes(key, <<"_", "_", "n">>)
    THEN [matched |-> TRUE, r |-> SplitBranch(f, key, v, allow, S_ne, "notIn", Pipe)]
    ELSE [matched |-> FALSE, r |-> Ok(f)]

(* the six branches shared by parseFilters and parseFiltersInclude;     *)
(* matched is FALSE when the key holds none of their tokens             *)
CommonBranches(f, key, v, allow, dateField, utc) ==
    IF Includes(key, S_in) THEN [matched |-> TRUE, r |-> SplitBranch(f, key, v, allow, S_in, "in", Pipe)]
    ELSE IF Includes(key, S_con)
    THEN [matched |-> TRUE,
          r |-> PlainBranch(f, key, allow, S_con, "iLike", Str(<<"%">> \o ToStr(v) \o <<"%">>))]
    ELSE IF Includes(key, S_sw) THEN [matched |-> TRUE, r |-> PlainBranch(f, key, allow, S_sw, "startsWith", v)]
    ELSE IF Includes(key, S_ew) THEN [matched |-> TRUE, r |-> PlainBranch(f, key, allow, S_ew, "endsWith", v)]
    ELSE IF Includes(key, S_is) THEN [matched |-> TRUE, r |-> IsBranch(f, key, v, allow, dateField, utc)]
    ELSE IF Includes(key, S_ne) THEN [matched |-> TRUE, r |-> SplitBranch(f, key, v, allow, S_ne, "notIn", Pipe)]
    ELSE [matched |-> FALSE, r |-> Ok(f)]

(* the __lte and __gte branches: the earlier copy keeps the operator on *)
(* the fields of its list only                                          *)
CompareBranch(copy, f, key, v, allow, suffix, op, keepOp) ==
    IF copy = "part_009" \/ ArrIncludes(keepOp, RemoveFirst(key, suffix))
    THEN PlainBranch(f, key, allow, suffix, op, v)
    ELSE PlainBranch(f, key, allow, suffix, "eq", v)

(* parseFilters, the else-if chain on a truthy query[key] *)
FiltersBranches(copy, f, key, v, allow) ==
    LET c == CommonBranches(f, key, v, allow, DateFieldIn(copy, RemoveFirst(key, S_is)), TRUE)
    IN IF c.matched THEN c.r
       ELSE IF Includes(key, S_lte) THEN CompareBranch(copy, f, key, v, allow, S_lte, "lte", lteFields)
       ELSE IF Includes(key, S_gte) THEN CompareBranch(copy, f, key, v, allow, S_gte, "gte", gteFields)
       ELSE IF Includes(key, S_nin) THEN SplitBranch(f, key, v, allow, S_nin, "notIn", Pipe)
       ELSE IF Includes(key, S_bet) THEN SplitBranch(f, key, v, allow, S_bet, "between", Comma)
       ELSE Ok(f)

(* parseFilters, the branch of query[key] == null *)
NullBranch(f, key, allow) ==
    LET base_key == RemoveFirst(key, S_is)
    IN IF ArrIncludes(allow, base_key) THEN Ok(SetWhere(f, base_key, Clause("eq", Null))) ELSE Ok(f)

(* the offset of the comment of line 124: (page - 1) * pageSize *)
SetOffsetPageMinusOne(f, entries) ==
    [f EXCEPT !.offset =
        Times(IF ToNumber(Get(entries, K_page)).t = "nan" THEN NaN
              ELSE Num(ToNumber(Get(entries, K_page)).n - 1),
              ToNumber(Get(entries, K_size)))]

(* filters.offset = +query.page * +query.size *)
SetOffset(f, entries) ==
    [f EXCEPT !.offset = Times(ToNumber(Get(entries, K_page)), ToNumber(Get(entries, K_size)))]

(* filters.limit = +query.size *)
SetLimit(f, entries) == [f EXCEPT !.limit = ToNumber(Get(entries, K_size))]

(* a push that starts a new array each time *)
PushIncludeReplacing(f, associationName, includeFiltersResult) ==
    [f EXCEPT !.include =
        Arr(<<[association |-> associationName, spec |-> includeFiltersResult]>>)]

(* includeArray.push({ association, ...includeFiltersResult }) *)
PushInclude(f, associationName, includeFiltersResult) ==
    LET includeArray == IF f.include.t = "arr" THEN f.include.a ELSE <<>>
    IN [f EXCEPT !.include =
            Arr(Append(includeArray, [association |-> associationName, spec |-> includeFiltersResult]))]

(* the two statements that open both callbacks: sort, then attributes *)
SortAndAttributes(f, entries, key, allow) ==
    LET s == IF key = K_sort THEN parseSorting(Get(entries, K_sort), allow) ELSE Ok(Undefined)
        f1 == IF key = K_sort /\ ~s.thrown THEN [f EXCEPT !.order = s.val] ELSE f
    IN IF s.thrown THEN Thrown(f)
       ELSE IF key = K_attributes
       THEN Ok([f1 EXCEPT !.attributes = parseAttributes(Get(entries, K_attributes))])
       ELSE Ok(f1)

(* a callback whose null branch takes every value that is not truthy *)
FiltersCallbackFalsyIsNull(copy, f, entries, key, list, allow) ==
    LET a == SortAndAttributes(f, entries, key, allow)
        v == Get(entries, key)
    IN IF a.thrown \/ ~list THEN a
       ELSE IF key = K_page THEN Ok(SetOffset(a.val, entries))
       ELSE IF key = K_size THEN Ok(SetLimit(a.val, entries))
       ELSE IF Truthy(v) THEN FiltersBranches(copy, a.val, key, v, allow)
       ELSE NullBranch(a.val, key, allow)

(* parseFilters: the forEach callback on one key *)
FiltersCallback(copy, f, entries, key, list, allow) ==
    LET a == SortAndAttributes(f, entries, key, allow)
        v == Get(entries, key)
    IN IF a.thrown \/ ~list THEN a
       ELSE IF key = K_page THEN Ok(SetOffset(a.val, entries))
       ELSE IF key = K_size THEN Ok(SetLimit(a.val, entries))
       ELSE IF Truthy(v) THEN FiltersBranches(copy, a.val, key, v, allow)
       ELSE IF LooseEqNull(v) THEN NullBranch(a.val, key, allow)
       ELSE a

(* parseFiltersInclude: the callback and the whole call are mutually    *)
(* recursive through the include_ branch                                *)
RECURSIVE parseFiltersIncludeFrom(_, _, _, _, _)
RECURSIVE IncludeCallback(_, _, _, _, _)
RECURSIVE IncludeCatches(_, _, _, _, _)

parseFiltersIncludeCall(query, list, allow) ==
    IF KeysThrows(query) THEN EmptyFilters
    ELSE parseFiltersIncludeFrom(EmptyFilters, OwnEntries(query), 1, list, allow)

(* an include_ branch that lets the failure of the nested call through *)
IncludeBranchPropagates(f, key, v, allow) ==
    LET associationName == SubstringFrom(key, Len(IncludePrefix))
        includeFilters == IF TypeofObject(v) THEN v ELSE Obj(<<>>)
    IN IF IncludeCatches(EmptyFilters, OwnEntries(includeFilters), 1, FALSE, allow)
       THEN Thrown(f)
       ELSE Ok(PushInclude(f, associationName, parseFiltersIncludeCall(includeFilters, FALSE, allow)))

IncludeBranch(f, key, v, allow) ==
    LET associationName == SubstringFrom(key, Len(IncludePrefix))
        includeFilters == IF TypeofObject(v) THEN v ELSE Obj(<<>>)
    IN Ok(PushInclude(f, associationName, parseFiltersIncludeCall(includeFilters, FALSE, allow)))

(* a callback of parseFiltersInclude without the pagination keys *)
IncludeCallbackNoPagination(f, entries, key, list, allow) ==
    LET a == SortAndAttributes(f, entries, key, allow)
        v == Get(entries, key)
    IN IF a.thrown \/ ~list THEN a
       ELSE IF Truthy(v)
       THEN IF StartsWith(key, IncludePrefix) THEN IncludeBranch(a.val, key, v, allow)
            ELSE CommonBranches(a.val, key, v, allow,
                                ArrIncludes(includeDateFields, RemoveFirst(key, S_is)), FALSE).r
       ELSE a

IncludeCallback(f, entries, key, list, allow) ==
    LET a == SortAndAttributes(f, entries, key, allow)
        v == Get(entries, key)
    IN IF a.thrown \/ ~list THEN a
       ELSE IF key = K_page THEN Ok(SetOffset(a.val, entries))
       ELSE IF key = K_size THEN Ok(SetLimit(a.val, entries))
       ELSE IF Truthy(v)
       THEN IF StartsWith(key, IncludePrefix) THEN IncludeBranch(a.val, key, v, allow)
            ELSE CommonBranches(a.val, key, v, allow,
                                ArrIncludes(includeDateFields, RemoveFirst(key, S_is)), FALSE).r
       ELSE a

(* the forEach from key i on, then the catch: a throw ends the loop and *)
(* the FindOptions built so far are returned                            *)
parseFiltersIncludeFrom(f, entries, i, list, allow) ==
    IF i > Len(entries) THEN f
    ELSE LET r == IncludeCallback(f, entries, entries[i].k, list, allow)
         IN IF r.thrown THEN r.val
            ELSE parseFiltersIncludeFrom(r.val, entries, i + 1, list, allow)

(* does the forEach of parseFiltersInclude from key i on end in the     *)
(* catch block of the call                                              *)
IncludeCatches(f, entries, i, list, allow) ==
    IF i > Len(entries) THEN FALSE
    ELSE LET r == IncludeCallback(f, entries, entries[i].k, list, allow)
         IN r.thrown \/ IncludeCatches(r.val, entries, i + 1, list, allow)

(* parseFilters: the forEach from key i on, then the catch *)
RECURSIVE parseFiltersFrom(_, _, _, _, _, _)
parseFiltersFrom(copy, f, entries, i, list, allow) ==
    IF i > Len(entries) THEN f
    ELSE LET r == FiltersCallback(copy, f, entries, entries[i].k, list, allow)
         IN IF r.thrown THEN r.val
            ELSE parseFiltersFrom(copy, r.val, entries, i + 1, list, allow)

parseFiltersCall(copy, query, list, allow) ==
    IF KeysThrows(query) THEN EmptyFilters
    ELSE parseFiltersFrom(copy, EmptyFilters, OwnEntries(query), 1, list, allow)

(* the callback of the entry point in use *)
Callback(copy, fn, f, entries, key, list, allow) ==
    IF fn = "parseFilters" THEN FiltersCallback(copy, f, entries, key, list, allow)
    ELSE IncludeCallback(f, entries, key, list, allow)

(* ------------------------------------------------------------------ *)
(* Inputs                                                             *)
(* ------------------------------------------------------------------ *)
F_name == <<"n", "a", "m", "e">>
F_age == <<"a", "g", "e">>
F_email == <<"e", "m", "a", "i", "l">>
F_secret == <<"s", "e", "c", "r", "e", "t">>

(* BaseModel.filterable_attributes and BaseModel.default_filterable_attributes *)
BaseAllow == <<>>
default_filterable_attributes == <<F_id, F_status, F_created_at, F_updated_at>>

(* User.filterable_attributes *)
UserAllow == default_filterable_attributes \o <<F_email, F_name, F_age>>

(* a child model that overrides the list without the defaults *)
ChildAllow == <<F_name, F_age, F_deleted_at>>

AllowLists == {BaseAllow, UserAllow, ChildAllow}

(* the longest query of the model, in keys *)
MaxKeys == 3

(* string values *)
V_a == Str(<<"a">>)
V_ab == Str(<<"a", "|", "b">>)
V_name == Str(F_name)
V_secret == Str(F_secret)
V_name_ageDesc == Str(F_name \o <<"|">> \o F_age \o Dash)
V_secretDesc_name_idDesc == Str(F_secret \o Dash \o <<"|">> \o F_name \o <<"|">> \o F_id \o Dash)
V_id_secret == Str(F_id \o <<"|">> \o F_secret)

V_status == Str(F_status)
V_statusDesc_name == Str(F_status \o Dash \o <<"|">> \o F_name)
V_name_status == Str(F_name \o <<"|">> \o F_status)
V_day == Str(<<"2", "0", "2", "4", "-", "0", "1", "-", "1", "5">>)
V_dayTime == Str(V_day.s \o <<"T", "1", "0", ":", "3", "0">>)
V_18_65 == Str(<<"1", "8", ",", "6", "5">>)
V_18 == Str(<<"1", "8">>)
V_1_2_3 == Str(<<"1", ",", "2", ",", "3">>)
V_john == Str(<<"j", "o", "h", "n">>)
V_deleted_at_email == Str(F_deleted_at \o <<"|">> \o F_email)

(* association names *)
A_user == <<"u", "s", "e", "r">>
A_products == <<"p", "r", "o", "d", "u", "c", "t", "s">>

(* entries about filter keys: well-formed values, a number where a       *)
(* delimited string is expected, a null, and a field outside every list  *)
FilterPool ==
    { Entry(F_name \o S_in, V_ab), Entry(F_name \o S_in, Num(5)),
      Entry(F_secret \o S_in, V_a),
      Entry(F_age \o S_gte, Num(18)), Entry(F_age \o S_lte, Num(65)),
      Entry(F_name \o S_is, V_a), Entry(F_name \o S_is, Null) }

(* entries about the sort key *)
SortPool ==
    { Entry(K_sort, V_name), Entry(K_sort, V_name_ageDesc), Entry(K_sort, V_secret),
      Entry(K_sort, V_secretDesc_name_idDesc), Entry(K_sort, Str(<<>>)),
      Entry(K_sort, Arr(<<Str(F_age \o Dash), V_name>>)),
      Entry(K_sort, Arr(<<V_name, Num(5)>>)), Entry(K_sort, Arr(<<Arr(<<V_name>>), V_secret>>)),
      Entry(K_sort, Num(5)), Entry(K_sort, Undefined),
      Entry(F_name \o S_in, V_ab), Entry(F_name \o S_in, Num(5)),
      Entry(K_attributes, Arr(<<V_secret, V_name>>)) }

(* entries about sort tokens on status and about the attributes key *)
ProjectionPool ==
    { Entry(K_sort, V_status), Entry(K_sort, V_statusDesc_name), Entry(K_sort, V_name_status),
      Entry(K_sort, Arr(<<V_name, Str(F_status \o Dash)>>)),
      Entry(K_attributes, Arr(<<V_secret, V_name>>)), Entry(K_attributes, V_id_secret),
      Entry(K_attributes, Str(<<>>)), Entry(K_attributes, Num(5)),
      Entry(F_name \o S_in, Num(5)) }

(* entries about the pagination keys *)
PagePool ==
    { Entry(K_page, Num(0)), Entry(K_page, Num(2)), Entry(K_page, Str(<<"1">>)),
      Entry(K_size, Num(0)), Entry(K_size, Num(50)), Entry(K_size, Str(<<"2", "0">>)),
      Entry(F_name \o S_in, V_ab), Entry(F_name \o S_in, Num(5)),
      Entry(K_sort, V_name) }

(* entries about value shapes (an array or an object where a delimited  *)
(* string is expected, a null sort item) and about include_ keys        *)
ShapePool ==
    { Entry(IncludePrefix \o A_user,
            Obj(<<Entry(F_status \o S_is, Num(1)), Entry(K_sort, Arr(<<Num(5)>>))>>)),
      Entry(IncludePrefix \o A_user, V_a),
      Entry(F_name \o S_in, Arr(<<V_a>>)), Entry(F_name \o S_in, Obj(<<>>)),
      Entry(F_name \o S_is, V_a),
      Entry(K_sort, Arr(<<Null>>)) }

(* entries about the set and range operators *)
OperatorPool ==
    { Entry(F_name \o S_in, V_ab),
      Entry(F_name \o S_nin, V_ab), Entry(F_name \o S_nin, V_a),
      Entry(F_name \o S_ne, V_ab),
      Entry(F_age \o S_bet, V_18_65), Entry(F_age \o S_bet, V_18), Entry(F_age \o S_bet, V_1_2_3) }

(* entries about __is on date fields and on other fields *)
DatePool ==
    { Entry(F_created_at \o S_is, V_day), Entry(F_created_at \o S_is, V_dayTime),
      Entry(F_created_at \o S_is, V_a),
      Entry(F_deleted_at \o S_is, V_day),
      Entry(F_name \o S_is, V_day),
      Entry(F_age \o S_is, Num(30)) }

(* entries about null and undefined values *)
NullPool ==
    { Entry(F_name, Null), Entry(F_name \o S_is, Undefined),
      Entry(F_secret \o S_is, Null),
      Entry(F_name \o S_in, Null),
      Entry(F_age \o S_is, Null) }

(* entries about relations: the nested mappings of include_ keys *)
IncludePool ==
    { Entry(IncludePrefix \o A_user,
            Obj(<<Entry(F_status \o S_is, Num(1)), Entry(F_name \o S_con, V_john)>>)),
      Entry(IncludePrefix \o A_user,
            Obj(<<Entry(K_sort, Arr(<<Num(5)>>)), Entry(F_status \o S_is, Num(1))>>)),
      Entry(IncludePrefix \o A_user, Obj(<<Entry(K_sort, V_deleted_at_email)>>)),
      Entry(IncludePrefix \o A_user,
            Obj(<<Entry(IncludePrefix \o A_products, Obj(<<Entry(F_name \o S_in, V_ab)>>)),
                  Entry(F_status \o S_is, Num(1))>>)),
      Entry(IncludePrefix \o A_products, Obj(<<Entry(F_name \o S_in, V_ab)>>)),
      Entry(F_status \o S_is, Num(1)),
      Entry(F_name \o S_in, Num(5)) }

(* keys that hold an operator token before their end and keys with the  *)
(* suffixes __gt and __lt                                               *)
S_gt == <<"_", "_", "g", "t">>
S_lt == <<"_", "_", "l", "t">>
K_sta_intus == <<"s", "t", "a", "_", "_", "i", "n", "t", "u", "s">>
K_inid == <<"_", "_", "i", "n", "i", "d">>

TokenPool ==
    { Entry(K_sta_intus, V_a), Entry(K_inid, V_a),
      Entry(F_age \o S_gt, Num(18)), Entry(F_age \o S_lt, Num(65)) }

(* entries about the pattern and comparison operators on string values *)
MatchPool ==
    { Entry(F_name \o S_con, V_john), Entry(F_name \o S_sw, V_a), Entry(F_name \o S_ew, V_a),
      Entry(F_age \o S_gte, V_18), Entry(F_age \o S_lte, V_18) }

(* entries about values that are falsy and not null *)
FalsyPool ==
    { Entry(F_name \o S_is, Num(0)), Entry(F_name \o S_in, Str(<<>>)),
      Entry(F_age \o S_is, Bool(FALSE)), Entry(F_name, Num(0)),
      Entry(F_age \o S_lte, Num(65)) }

(* an object holds each key once *)
DistinctKeys(q) == \A a, b \in 1..Len(q) : a # b => q[a].k # q[b].k

(* the query objects of at most n entries drawn from pool *)
Queries(pool, n) ==
    UNION { { q \in [1..m -> pool] : DistinctKeys(q) } : m \in 0..n }

QueryValues ==
    {Null, Undefined}
    \cup { Obj(q) : q \in Queries(FilterPool, MaxKeys) \cup Queries(SortPool, MaxKeys)
                          \cup Queries(PagePool, MaxKeys) \cup Queries(ShapePool, MaxKeys)
                          \cup Queries(OperatorPool, MaxKeys) \cup Queries(DatePool, MaxKeys)
                          \cup Queries(NullPool, MaxKeys) \cup Queries(IncludePool, MaxKeys)
                          \cup Queries(ProjectionPool, MaxKeys) \cup Queries(TokenPool, MaxKeys)
                          \cup Queries(MatchPool, MaxKeys) \cup Queries(FalsyPool, MaxKeys) }

(* ------------------------------------------------------------------ *)
(* One call of parseFilters or parseFiltersInclude                    *)
(* ------------------------------------------------------------------ *)
VARIABLES
    copy,                  \* the copy of BaseModel the call runs
    fn,                    \* the entry point called
    query,                 \* its first argument
    list,                  \* its second argument
    filterable_attributes, \* this.filterable_attributes
    pc,                    \* "try", "forEach", "catch", "return", "done", "raised"
    i,                     \* the index into Object.keys(query) of the next key
    filters,               \* the FindOptions being built
    logged,                \* whether console.log was called by the catch
    result                 \* the value returned to the caller

vars == <<copy, fn, query, list, filterable_attributes, pc, i, filters, logged, result>>

args == <<copy, fn, query, list, filterable_attributes>>

(* parseFiltersInclude is the same code in both copies and is run once *)
Init ==
    /\ fn \in {"parseFilters", "parseFiltersInclude"}
    /\ copy \in IF fn = "parseFilters" THEN Copies ELSE {"part_009"}
    /\ query \in QueryValues
    /\ list \in BOOLEAN
    /\ filterable_attributes \in AllowLists
    /\ pc = "try"
    /\ i = 0
    /\ filters = EmptyFilters
    /\ logged = FALSE
    /\ result = Undefined

(* Object.keys(query) succeeds and forEach starts *)
ObjectKeys ==
    /\ pc = "try"
    /\ ~KeysThrows(query)
    /\ pc' = "forEach"
    /\ i' = 1
    /\ UNCHANGED <<args, filters, logged, result>>

(* Object.keys(query) taken before the try block: the TypeError leaves *)
(* the function                                                        *)
ObjectKeysThrowsOutsideTry ==
    /\ pc = "try"
    /\ KeysThrows(query)
    /\ pc' = "raised"
    /\ UNCHANGED <<args, i, filters, logged, result>>

(* Object.keys(query) raises a TypeError inside the try block *)
ObjectKeysThrows ==
    /\ pc = "try"
    /\ KeysThrows(query)
    /\ pc' = "catch"
    /\ UNCHANGED <<args, i, filters, logged, result>>

(* what the callback does on key i *)
CallbackOutcome ==
    Callback(copy, fn, filters, OwnEntries(query), OwnEntries(query)[i].k, list, filterable_attributes)

(* the forEach callback runs to its end on key i *)
Iterate ==
    /\ pc = "forEach"
    /\ i <= Len(OwnEntries(query))
    /\ ~CallbackOutcome.thrown
    /\ filters' = CallbackOutcome.val
    /\ i' = i + 1
    /\ UNCHANGED <<args, pc, logged, result>>

(* the callback raises on key i: forEach is abandoned *)
IterateThrows ==
    /\ pc = "forEach"
    /\ i <= Len(OwnEntries(query))
    /\ CallbackOutcome.thrown
    /\ filters' = CallbackOutcome.val
    /\ pc' = "catch"
    /\ UNCHANGED <<args, i, logged, result>>

(* forEach has visited every key *)
ForEachEnd ==
    /\ pc = "forEach"
    /\ i > Len(OwnEntries(query))
    /\ pc' = "return"
    /\ UNCHANGED <<args, i, filters, logged, result>>

(* a catch block that gives up what was built: the empty spec is        *)
(* returned after an exception                                          *)
CatchDiscards ==
    /\ pc = "catch"
    /\ logged' = TRUE
    /\ pc' = "return"
    /\ filters' = EmptyFilters
    /\ UNCHANGED <<args, i, result>>

(* catch (err) { console.log(...) } *)
Catch ==
    /\ pc = "catch"
    /\ logged' = TRUE
    /\ pc' = "return"
    /\ UNCHANGED <<args, i, filters, result>>

(* return filters *)
Return ==
    /\ pc = "return"
    /\ result' = filters
    /\ pc' = "done"
    /\ UNCHANGED <<args, i, filters, logged>>

Next ==
    \/ ObjectKeys
    \/ ObjectKeysThrows
    \/ Iterate
    \/ IterateThrows
    \/ ForEachEnd
    \/ Catch
    \/ Return

Spec == Init /\ [][Next]_vars

(* ------------------------------------------------------------------ *)
(* Vocabulary of the properties                                       *)
(* ------------------------------------------------------------------ *)
Suffixes == {S_in, S_nin, S_ne, S_con, S_sw, S_ew, S_is, S_gte, S_lte, S_bet}

DoubleUnderscore == <<"_", "_">>

EndsWith(s, suffix) ==
    Len(s) >= Len(suffix) /\ SubSeq(s, Len(s) - Len(suffix) + 1, Len(s)) = suffix

DropSuffix(s, suffix) == SubSeq(s, 1, Len(s) - Len(suffix))

(* key is f or f + suffix for a field name f that holds no "__" *)
WellFormedKey(key) ==
    \/ ~Includes(key, DoubleUnderscore)
    \/ \E S \in Suffixes : EndsWith(key, S) /\ ~Includes(DropSuffix(key, S), DoubleUnderscore)

(* the field a well-formed key names *)
FieldOfKey(key) ==
    IF \E S \in Suffixes : EndsWith(key, S)
    THEN DropSuffix(key, CHOOSE S \in Suffixes : EndsWith(key, S))
    ELSE key

Entries == OwnEntries(query)

HasKey(key) == \E j \in 1..Len(Entries) : Entries[j].k = key

KeyIndex(key) == CHOOSE j \in 1..Len(Entries) : Entries[j].k = key

(* the forEach callback has run to its end on the key *)
Visited(key) == HasKey(key) /\ pc \in {"forEach", "catch", "return", "done"} /\ KeyIndex(key) < i

(* the key the callback is about to run on *)
AtKey == pc = "forEach" /\ i <= Len(Entries)

CurrentKey == Entries[i].k

Allowed(field) == ArrIncludes(filterable_attributes, field)

WhereFields(where) == { where[j].k : j \in 1..Len(where) }

(* the predicate fields of a FindOptions and of the child FindOptions of *)
(* its include entries                                                  *)
RECURSIVE SpecWhereFields(_)
SpecWhereFields(f) ==
    WhereFields(f.where)
    \cup (IF f.include.t = "arr"
          THEN UNION { SpecWhereFields(f.include.a[j].spec) : j \in 1..Len(f.include.a) }
          ELSE {})

OrderFields(order) == IF order.t = "arr" THEN { order.a[j].f : j \in 1..Len(order.a) } ELSE {}

(* ------------------------------------------------------------------ *)
(* The model agrees with itself: the stepwise call returns what the    *)
(* call taken as one function returns                                  *)
(* ------------------------------------------------------------------ *)
StepwiseIsCall ==
    pc = "done" =>
        result = IF fn = "parseFilters"
                 THEN parseFiltersCall(copy, query, list, filterable_attributes)
                 ELSE parseFiltersIncludeCall(query, list, filterable_attributes)

(* ------------------------------------------------------------------ *)
(* C1: in both entry points and both modes, every field that is a key  *)
(* of the predicate under construction or returned is a member of      *)
(* filterable_attributes, and the callback on a well-formed key whose  *)
(* field is not a member leaves the predicate as it was.               *)
(* ------------------------------------------------------------------ *)
C1_PredicateFieldsAllowed ==
    /\ \A f \in SpecWhereFields(filters) : Allowed(f)
    /\ pc = "done" => \A f \in SpecWhereFields(result) : Allowed(f)

C1_DisallowedKeyNoClause ==
    (AtKey /\ WellFormedKey(CurrentKey) /\ ~Allowed(FieldOfKey(CurrentKey)))
        => filters'.where = filters.where

C1_AllowListEnforced == []C1_PredicateFieldsAllowed /\ [][C1_DisallowedKeyNoClause]_vars

(* a returned predicate that kept the allowed key of a query and left   *)
(* out the key on the field secret                                      *)
C1_Witness ==
    /\ pc = "done"
    /\ query.t = "obj"
    /\ Truthy(Get(Entries, F_secret \o S_in))
    /\ Visited(F_secret \o S_in)
    /\ WhereFields(result.where) = {F_name}

(* ------------------------------------------------------------------ *)
(* C2 as stated: every field of the sort order, the fallback pair      *)
(* included, is a member of the allow-list, also when the allow-list   *)
(* does not hold id.                                                   *)
(* ------------------------------------------------------------------ *)
C2_SortFieldsAllowed ==
    /\ \A f \in OrderFields(filters.order) : Allowed(f)
    /\ pc = "done" => \A f \in OrderFields(result.order) : Allowed(f)

(* C2 amended: every field of the sort order is a member of the        *)
(* allow-list, except that the order may be the fallback [(id, DESC)],  *)
(* which parseSorting returns whether or not id is in the allow-list.   *)
C2_SortFieldsAllowedOrFallback ==
    /\ filters.order = DefaultOrder \/ \A f \in OrderFields(filters.order) : Allowed(f)
    /\ pc = "done" =>
          (result.order = DefaultOrder \/ \A f \in OrderFields(result.order) : Allowed(f))

(* a returned order of two parsed pairs, the token on secret dropped *)
C2_Witness ==
    /\ pc = "done"
    /\ query.t = "obj"
    /\ Get(Entries, K_sort) = V_secretDesc_name_idDesc
    /\ result.order = Arr(<<Pair(F_name, "ASC"), Pair(F_id, "DESC")>>)

(* ------------------------------------------------------------------ *)
(* C3: a call of parseFilters or parseFiltersInclude never raises to    *)
(* its caller: whatever the query (null, a non-string where a delimited *)
(* string is expected, a sort list with a non-string item), control     *)
(* stays inside the function until it returns the FindOptions built.    *)
(* ------------------------------------------------------------------ *)
C3_NeverRaises ==
    /\ pc \in {"try", "forEach", "catch", "return", "done"}
    /\ pc = "catch" => ~logged /\ result = Undefined
    /\ pc = "return" => result = Undefined
    /\ pc = "done" => "where" \in DOMAIN result /\ result = filters

(* the call on a null query has returned the empty FindOptions *)
C3_Witness ==
    /\ pc = "done"
    /\ query = Null
    /\ logged
    /\ result = EmptyFilters

(* ------------------------------------------------------------------ *)
(* C4 as stated: a key whose value makes its clause fail does not stop  *)
(* the other keys of the query from compiling, whether they come before *)
(* or after it: parseFilters returns what the loop gives when it skips  *)
(* the failing key and goes on with the rest.                           *)
(* ------------------------------------------------------------------ *)
RECURSIVE ContinuingFrom(_, _, _, _, _)
ContinuingFrom(f, entries, j, mode, allow) ==
    IF j > Len(entries) THEN f
    ELSE LET r == FiltersCallback(copy, f, entries, entries[j].k, mode, allow)
         IN ContinuingFrom(IF r.thrown THEN f ELSE r.val, entries, j + 1, mode, allow)

C4_OtherKeysStillCompile ==
    (pc = "done" /\ fn = "parseFilters" /\ query.t = "obj")
        => result = ContinuingFrom(EmptyFilters, Entries, 1, list, filterable_attributes)

(* ------------------------------------------------------------------ *)
(* C5 as stated: in list mode the predicate returned by parseFilters    *)
(* holds, for each key with an operator suffix, an allowed field and a  *)
(* truthy value, the clause of that key, also when two keys name the    *)
(* same field (stated for the calls in which no key raises and every    *)
(* value is truthy).                                                    *)
(* ------------------------------------------------------------------ *)
HasSuffix(key) == \E S \in Suffixes : EndsWith(key, S)

(* the clause entry the key compiles to when it is alone *)
OwnClause(e) == FiltersBranches(copy, EmptyFilters, e.k, e.v, filterable_attributes).val.where

C5_EveryClausePresent ==
    (/\ pc = "done" /\ fn = "parseFilters" /\ list /\ ~logged /\ query.t = "obj"
     /\ \A j \in 1..Len(Entries) : Truthy(Entries[j].v))
        => \A j \in 1..Len(Entries) :
              (/\ Truthy(Entries[j].v)
               /\ WellFormedKey(Entries[j].k) /\ HasSuffix(Entries[j].k)
               /\ Allowed(FieldOfKey(Entries[j].k)))
              => /\ Len(OwnClause(Entries[j])) = 1
                 /\ \E w \in 1..Len(result.where) : result.where[w] = OwnClause(Entries[j])[1]

(* ------------------------------------------------------------------ *)
(* C6 as stated: the mode gates pagination only: the predicate that     *)
(* parseFilters returns in single mode is the predicate it returns for  *)
(* the same query in list mode.                                         *)
(* ------------------------------------------------------------------ *)
C6_SingleModeSamePredicate ==
    (pc = "done" /\ fn = "parseFilters" /\ ~list)
        => result.where = parseFiltersCall(copy, query, TRUE, filterable_attributes).where

(* ------------------------------------------------------------------ *)
(* C7: in list mode, once the loop has run on both page and size, given *)
(* as non-negative integers (numbers or decimal strings, in either key  *)
(* order), offset = page * size and limit = size, and so they are       *)
(* returned; in single mode the returned FindOptions has neither offset *)
(* nor limit, whatever the query. (A key that raises ends the loop      *)
(* before the keys after it are run on.)                                *)
(* ------------------------------------------------------------------ *)
RECURSIVE DecimalFrom(_, _, _)
DecimalFrom(s, j, acc) ==
    IF j > Len(s) THEN acc ELSE DecimalFrom(s, j + 1, 10 * acc + DigitVal(s[j]))

NonNegInt(v) ==
    \/ v.t = "num" /\ v.n >= 0
    \/ v.t = "str" /\ Len(v.s) > 0 /\ \A j \in 1..Len(v.s) : IsDigit(v.s[j])

IntOf(v) == IF v.t = "num" THEN v.n ELSE DecimalFrom(v.s, 1, 0)

C8_OneKeyNoPagination ==
    (pc = "done" /\ list /\ query.t = "obj" /\ (HasKey(K_page) # HasKey(K_size)))
        => (result.offset = Undefined /\ result.limit = Undefined)

(* ------------------------------------------------------------------ *)
(* Sort tokens as the specification reads them                          *)
(* ------------------------------------------------------------------ *)
(* the value is a pipe-delimited string or a list of string tokens *)
IsTokenList(v) ==
    \/ v.t = "str"
    \/ v.t = "arr" /\ \A j \in 1..Len(v.a) : v.a[j].t = "str"

SortTokens(v) == IF v.t = "str" THEN Split(v.s, "|") ELSE [j \in 1..Len(v.a) |-> v.a[j].s]

TokenDescending(tok) == Len(tok) > 0 /\ tok[Len(tok)] = "-"

TokenField(tok) == IF TokenDescending(tok) THEN SubSeq(tok, 1, Len(tok) - 1) ELSE tok

TokenPair(tok) == Pair(TokenField(tok), IF TokenDescending(tok) THEN "DESC" ELSE "ASC")

RECURSIVE AllowedPairs(_)
AllowedPairs(tokens) ==
    IF Len(tokens) = 0 THEN <<>>
    ELSE (IF Allowed(TokenField(tokens[1])) THEN <<TokenPair(tokens[1])>> ELSE <<>>)
         \o AllowedPairs(Tail(tokens))

NamesStatus(tokens) == \E j \in 1..Len(tokens) : TokenField(tokens[j]) = F_status

(* ------------------------------------------------------------------ *)
(* C9 as stated: when the sort key is omitted, or every token of its    *)
(* value names a disallowed field, the returned sort order is exactly   *)
(* [(id, DESC)] (stated for the calls in which no key raises).          *)
(* ------------------------------------------------------------------ *)
C9_SortFallback ==
    (/\ pc = "done" /\ ~logged /\ query.t = "obj"
     /\ \/ ~HasKey(K_sort)
        \/ IsTokenList(Get(Entries, K_sort)) /\ AllowedPairs(SortTokens(Get(Entries, K_sort))) = <<>>)
        => result.order = DefaultOrder

(* ------------------------------------------------------------------ *)
(* C10 as stated: for a sort value that is a pipe-delimited string or a *)
(* list of tokens, none of them naming status, the compiled order is    *)
(* the sequence of the allowed tokens in input order, (field, DESC) for *)
(* a token ending in - and (field, ASC) otherwise, once the loop has    *)
(* run on the sort key.                                                 *)
(* ------------------------------------------------------------------ *)
SortCase ==
    /\ query.t = "obj"
    /\ Visited(K_sort)
    /\ IsTokenList(Get(Entries, K_sort))
    /\ ~NamesStatus(SortTokens(Get(Entries, K_sort)))

C10_OrderIsAllowedTokens ==
    SortCase =>
        /\ filters.order = Arr(AllowedPairs(SortTokens(Get(Entries, K_sort))))
        /\ pc = "done" => result.order = filters.order

(* C10 amended: the same, for a sort value of which at least one token  *)
(* is allowed; when no token is allowed the order is the fallback       *)
(* [(id, DESC)] and not the empty sequence.                             *)
C10_OrderIsAllowedTokensOrFallback ==
    SortCase =>
        /\ filters.order =
              IF AllowedPairs(SortTokens(Get(Entries, K_sort))) # <<>>
              THEN Arr(AllowedPairs(SortTokens(Get(Entries, K_sort))))
              ELSE DefaultOrder
        /\ pc = "done" => result.order = filters.order

(* sort = 'name|age-' returned as [(name, ASC), (age, DESC)] *)
C10_Witness ==
    /\ pc = "done"
    /\ query.t = "obj"
    /\ Get(Entries, K_sort) = V_name_ageDesc
    /\ result.order = Arr(<<Pair(F_name, "ASC"), Pair(F_age, "DESC")>>)

(* ------------------------------------------------------------------ *)
(* C11: with status in the allow-list, once the loop has run on a sort  *)
(* value that is a pipe-delimited string or a list of tokens, the order *)
(* holds (status, DESC) for each token status and (status, ASC) for     *)
(* each token status-, at the place of the token among the allowed      *)
(* tokens; the other tokens keep their own direction.                   *)
(* ------------------------------------------------------------------ *)
StatusInvertedPair(tok) ==
    IF TokenField(tok) = F_status
    THEN Pair(F_status, IF TokenDescending(tok) THEN "ASC" ELSE "DESC")
    ELSE TokenPair(tok)

RECURSIVE StatusInvertedPairs(_)
StatusInvertedPairs(tokens) ==
    IF Len(tokens) = 0 THEN <<>>
    ELSE (IF Allowed(TokenField(tokens[1])) THEN <<StatusInvertedPair(tokens[1])>> ELSE <<>>)
         \o StatusInvertedPairs(Tail(tokens))

AllowedFields == { filterable_attributes[j] : j \in 1..Len(filterable_attributes) }

(* the strings of a list joined by sep *)
RECURSIVE JoinWith(_, _)
JoinWith(a, sep) ==
    IF Len(a) = 0 THEN <<>>
    ELSE IF Len(a) = 1 THEN a[1].s
    ELSE a[1].s \o <<sep>> \o JoinWith(Tail(a), sep)

(* arg is the list of the sep-free strings that v is made of *)
IsSplitOf(arg, v, sep) ==
    /\ arg.t = "arr"
    /\ Len(arg.a) >= 1
    /\ \A j \in 1..Len(arg.a) : arg.a[j].t = "str" /\ ~Includes(arg.a[j].s, <<sep>>)
    /\ JoinWith(arg.a, sep) = v.s

(* the callback has just run to its end on the key before key i *)
JustRan == pc = "forEach" /\ query.t = "obj" /\ i > 1

LastKey == Entries[i - 1].k

LastValue == Entries[i - 1].v

(* the callback has just run, in list mode of parseFilters, on key      *)
(* f + suffix whose value is a non-empty string                         *)
RanOperatorKey(f, suffix) ==
    /\ JustRan
    /\ fn = "parseFilters"
    /\ list
    /\ LastKey = f \o suffix
    /\ LastValue.t = "str"
    /\ LastValue.s # <<>>

IsStringRange(c) ==
    /\ c.op = "between"
    /\ c.arg.t = "arr"
    /\ \A j \in 1..Len(c.arg.a) : c.arg.a[j].t = "str"

C13_BetweenTwoBounds ==
    (fn = "parseFilters" /\ list)
        => /\ \A j \in 1..Len(filters.where) :
                 IsStringRange(filters.where[j].v) => Len(filters.where[j].v.arg.a) = 2
           /\ (AtKey /\ EndsWith(CurrentKey, S_bet) /\ Entries[i].v.t = "str")
                 => ~CallbackOutcome.thrown

(* ------------------------------------------------------------------ *)
(* C14: in list mode of parseFilters, for every allowed field f and     *)
(* truthy value d, the callback on f__is leaves on f the plain equality *)
(* with d when f is not a date field, and, when f is a date field and d *)
(* is an ISO day or day-and-time string, the range from the first to    *)
(* the last millisecond of the day of d counted in UTC. The date fields *)
(* are those of isDateField, and in the earlier copy of parseFilters    *)
(* those of its inline list.                                            *)
(* ------------------------------------------------------------------ *)
(* the instant ms milliseconds into the UTC day written in d *)
UtcInstant(d, ms) ==
    [t |-> "moment", valid |-> TRUE, utc |-> TRUE, day |-> SubSeq(d.s, 1, 10), ms |-> ms]

IsDayString(d) ==
    d.t = "str" /\ IsoDay(d.s) /\ (Len(d.s) = 10 \/ (Len(d.s) = 16 /\ d.s[11] = "T"))

RanIsKey(f) ==
    /\ JustRan
    /\ fn = "parseFilters"
    /\ list
    /\ LastKey = f \o S_is
    /\ Truthy(LastValue)

IsNullClause == Clause("eq", Null)

C15_IsNullOnlyForIsSuffix ==
    (fn = "parseFilters" /\ list /\ query.t = "obj")
        => /\ \A f \in AllowedFields :
                 (JustRan /\ LastKey = f \o S_is /\ LooseEqNull(LastValue))
                    => WhereGet(filters.where, f) = IsNullClause
           /\ pc = "done" =>
                 \A w \in 1..Len(result.where) :
                    result.where[w].v = IsNullClause
                       => /\ HasKey(result.where[w].k \o S_is)
                          /\ LooseEqNull(Get(Entries, result.where[w].k \o S_is))

(* ------------------------------------------------------------------ *)
(* C16: in both entry points and both modes, once the loop has run on   *)
(* the attributes key, the projection is the value split on | when the  *)
(* value is a string and the value itself when it is a list, with every *)
(* entry kept whether or not it is in the allow-list, and so it is      *)
(* returned; a query without the attributes key returns no projection.  *)
(* ------------------------------------------------------------------ *)
C16_Projection ==
    /\ (query.t = "obj" /\ Visited(K_attributes) /\ Get(Entries, K_attributes).t = "str")
          => IsSplitOf(filters.attributes, Get(Entries, K_attributes), Pipe)
    /\ (query.t = "obj" /\ Visited(K_attributes) /\ Get(Entries, K_attributes).t = "arr")
          => filters.attributes = Get(Entries, K_attributes)
    /\ (query.t = "obj" /\ Visited(K_attributes) /\ pc = "done")
          => result.attributes = filters.attributes
    /\ (pc = "done" /\ (query.t # "obj" \/ ~HasKey(K_attributes)))
          => result.attributes = Undefined

(* attributes = 'id|secret' returned as [id, secret] in single mode by a *)
(* model that allows no field                                            *)
C16_Witness ==
    /\ pc = "done"
    /\ ~list
    /\ filterable_attributes = BaseAllow
    /\ query.t = "obj"
    /\ Get(Entries, K_attributes) = V_id_secret
    /\ result.attributes = Arr(<<Str(F_id), V_secret>>)

(* ------------------------------------------------------------------ *)
(* Relations of a FindOptions                                           *)
(* ------------------------------------------------------------------ *)
IsIncludeKey(key) == StartsWith(key, IncludePrefix)

(* <name> of include_<name> *)
RelationName(key) == SubSeq(key, Len(IncludePrefix) + 1, Len(key))

HasRelation(f, name) ==
    f.include.t = "arr" /\ \E r \in 1..Len(f.include.a) : f.include.a[r].association = name

RelationSpec(f, name) ==
    f.include.a[CHOOSE r \in 1..Len(f.include.a) : f.include.a[r].association = name].spec

(* compiling the nested mapping v raises inside the recursive call, in  *)
(* one mode or the other                                                *)
NestedRaises(v) ==
    \E mode \in BOOLEAN :
        IncludeCatches(EmptyFilters, OwnEntries(v), 1, mode, filterable_attributes)

(* the operator suffixes parseFiltersInclude knows *)
IncludeSuffixes == {S_in, S_con, S_sw, S_ew, S_is, S_ne}

(* ------------------------------------------------------------------ *)
(* C17 as stated: parseFiltersInclude in list mode, in a call in which  *)
(* no key raises, attaches for every include_<name> key whose value is  *)
(* a nested mapping that compiles without a failure a child FindOptions *)
(* whose predicate holds a clause on the field of each nested operator  *)
(* key with an allowed field and a truthy value.                        *)
(* ------------------------------------------------------------------ *)
C17_ChildPredicateCompiled ==
    (pc = "done" /\ fn = "parseFiltersInclude" /\ list /\ query.t = "obj" /\ ~logged)
        => \A j \in 1..Len(Entries) :
              (IsIncludeKey(Entries[j].k) /\ Entries[j].v.t = "obj" /\ ~NestedRaises(Entries[j].v))
                 => /\ HasRelation(result, RelationName(Entries[j].k))
                    /\ \A n \in 1..Len(Entries[j].v.o) :
                          (/\ Truthy(Entries[j].v.o[n].v)
                           /\ \E f \in AllowedFields, S \in IncludeSuffixes :
                                 Entries[j].v.o[n].k = f \o S)
                             => HasField(RelationSpec(result, RelationName(Entries[j].k)).where,
                                         FieldOfKey(Entries[j].v.o[n].k))

(* ------------------------------------------------------------------ *)
(* C18: in parseFiltersInclude the include_ keys change nothing but the *)
(* relations: the returned FindOptions without its relations is what    *)
(* the same query without its include_ keys compiles to, and in list    *)
(* mode the relations are, in key order, one entry named <name> for     *)
(* each include_<name> key with a truthy value that the loop has run    *)
(* on; in single mode there are none.                                   *)
(* ------------------------------------------------------------------ *)
NotIncludeEntry(e) == ~IsIncludeKey(e.k)

TruthyIncludeEntry(e) == IsIncludeKey(e.k) /\ Truthy(e.v)

WithoutIncludeKeys(q) == Obj(SelectSeq(OwnEntries(q), NotIncludeEntry))

RelationNames(f) ==
    IF f.include.t = "arr"
    THEN [r \in 1..Len(f.include.a) |-> f.include.a[r].association]
    ELSE <<>>

(* the names of the truthy include_ keys among the first n keys *)
IncludeNames(n) ==
    LET keys == SelectSeq(SubSeq(Entries, 1, n), TruthyIncludeEntry)
    IN [r \in 1..Len(keys) |-> RelationName(keys[r].k)]

C18_IncludeFrame ==
    (fn = "parseFiltersInclude" /\ query.t = "obj")
        => /\ pc = "done" =>
                 [result EXCEPT !.include = Undefined]
                    = parseFiltersIncludeCall(WithoutIncludeKeys(query), list, filterable_attributes)
           /\ pc \in {"forEach", "catch", "return", "done"} =>
                 RelationNames(filters) = IF list THEN IncludeNames(i - 1) ELSE <<>>
           /\ pc = "done" => RelationNames(result) = RelationNames(filters)

(* include_products, status__is = 1, include_user: two relations in key *)
(* order and the parent's own clause                                    *)
C18_Witness ==
    /\ pc = "done"
    /\ fn = "parseFiltersInclude"
    /\ list
    /\ query.t = "obj"
    /\ Len(Entries) = 3
    /\ Entries[2].k = F_status \o S_is
    /\ RelationNames(result) = <<A_products, A_user>>
    /\ result.where = <<Entry(F_status, Clause("eq", Num(1)))>>

(* ------------------------------------------------------------------ *)
(* C19: in list mode of parseFiltersInclude a failure inside the nested *)
(* mapping of an include_<name> key stays in the recursive call: the    *)
(* catch block of the parent is never entered from an include_ key, the *)
(* callback on such a key ends with a child attached for <name> and the *)
(* loop goes on, and when no key of the parent raises of its own the    *)
(* call returns with every key run on and every relation attached.      *)
(* ------------------------------------------------------------------ *)
(* the recursive call on the value of an include_ key ends in its catch *)
NestedCallFails(v) ==
    IncludeCatches(EmptyFilters, OwnEntries(IF TypeofObject(v) THEN v ELSE Obj(<<>>)), 1,
                   FALSE, filterable_attributes)

C19_NestedFailureIsolated ==
    (fn = "parseFiltersInclude" /\ list /\ query.t = "obj")
        => /\ (pc = "catch" \/ logged) => ~IsIncludeKey(Entries[i].k)
           /\ (JustRan /\ TruthyIncludeEntry(Entries[i - 1]) /\ NestedCallFails(LastValue))
                 => /\ HasRelation(filters, RelationName(LastKey))
                    /\ filters.include.a[Len(filters.include.a)].association = RelationName(LastKey)
           /\ (pc = "done" /\ ~logged)
                 => /\ i = Len(Entries) + 1
                    /\ RelationNames(result) = IncludeNames(Len(Entries))

(* include_user with a nested sort list that raises, then status__is =  *)
(* 1: the relation is attached and the parent's clause is compiled      *)
C19_Witness ==
    /\ pc = "done"
    /\ fn = "parseFiltersInclude"
    /\ list
    /\ ~logged
    /\ query.t = "obj"
    /\ Len(Entries) = 2
    /\ Entries[1].k = IncludePrefix \o A_user
    /\ NestedCallFails(Entries[1].v)
    /\ Entries[2].k = F_status \o S_is
    /\ RelationNames(result) = <<A_user>>
    /\ result.where = <<Entry(F_status, Clause("eq", Num(1)))>>

(* ------------------------------------------------------------------ *)
(* C20 as stated: the child FindOptions of relation user is checked     *)
(* against the allow-list of the User model and not against that of the *)
(* model the call is made on: no field outside User's list is in the    *)
(* child's predicate or sort order, and every sort token of the nested  *)
(* mapping on a field of User's list is in the child's sort order.      *)
(* ------------------------------------------------------------------ *)
(* the allow-list of the model behind relation user *)
RelationAllow == { UserAllow[j] : j \in 1..Len(UserAllow) }

C20_ChildUsesRelationAllowList ==
    (/\ pc = "done" /\ fn = "parseFiltersInclude" /\ list /\ query.t = "obj" /\ ~logged
     /\ HasKey(IncludePrefix \o A_user)
     /\ Get(Entries, IncludePrefix \o A_user).t = "obj"
     /\ ~NestedRaises(Get(Entries, IncludePrefix \o A_user))
     /\ IsTokenList(Get(Get(Entries, IncludePrefix \o A_user).o, K_sort)))
        => LET child == RelationSpec(result, A_user)
               tokens == SortTokens(Get(Get(Entries, IncludePrefix \o A_user).o, K_sort))
           IN /\ WhereFields(child.where) \subseteq RelationAllow
              /\ OrderFields(child.order) \subseteq RelationAllow
              /\ \A n \in 1..Len(tokens) :
                    TokenField(tokens[n]) \in RelationAllow
                       => TokenField(tokens[n]) \in OrderFields(child.order)

(* ------------------------------------------------------------------ *)
(* Key order                                                           *)
(* ------------------------------------------------------------------ *)
(* the orderings of n keys *)
Orderings(n) == { p \in [1..n -> 1..n] : \A a, b \in 1..n : a # b => p[a] # p[b] }

(* the query with its keys in the ordering p *)
Reordered(p) == Obj([j \in 1..Len(Entries) |-> Entries[p[j]]])

(* the clauses of a predicate, their order left aside *)
ClauseSet(where) == { where[j] : j \in 1..Len(where) }

(* two specs select the same records in the same order, projection and  *)
(* page: their predicates hold the same clauses                         *)
SameSelection(a, b) ==
    /\ ClauseSet(a.where) = ClauseSet(b.where)
    /\ a.order = b.order
    /\ a.attributes = b.attributes
    /\ a.offset = b.offset
    /\ a.limit = b.limit

(* ------------------------------------------------------------------ *)
(* C21: the compiled predicate does not depend on key order: for every  *)
(* query and every two orderings of its keys, the two predicates of     *)
(* parseFilters hold the same clauses (in any order), and sort,         *)
(* projection, offset and limit are equal. Stated for calls that        *)
(* return without a caught exception.                                   *)
(* ------------------------------------------------------------------ *)
C21_KeyOrderIndependent ==
    (pc = "done" /\ fn = "parseFilters" /\ query.t = "obj" /\ ~logged) =>
        \A p \in Orderings(Len(Entries)) :
            SameSelection(result, parseFiltersCall(copy, Reordered(p), list, filterable_attributes))

(* ------------------------------------------------------------------ *)
(* C22: in list mode of parseFilters, in each copy of the base model,   *)
(* for every allowed field f and truthy value v, after the callback has *)
(* run on key f__gte the clause on f is a greater-or-equal comparison   *)
(* with the raw value v, and after it has run on f__lte the clause is a *)
(* less-or-equal comparison with v; never a plain equality.             *)
(* ------------------------------------------------------------------ *)
C22_ComparisonInEachCopy ==
    \A f \in AllowedFields :
        (JustRan /\ fn = "parseFilters" /\ list /\ Truthy(LastValue)) =>
            /\ LastKey = f \o S_gte => WhereGet(filters.where, f) = Clause("gte", LastValue)
            /\ LastKey = f \o S_lte => WhereGet(filters.where, f) = Clause("lte", LastValue)

(* ------------------------------------------------------------------ *)
(* C23: an operator token is recognized only as a trailing suffix: in   *)
(* list mode of parseFilters, a key with a truthy value yields a clause *)
(* only when it ends with one of the ten suffixes, and the field of the *)
(* clause is the key without that suffix; a key that holds a token at   *)
(* its start or in its middle yields no clause.                         *)
(* ------------------------------------------------------------------ *)
C23_TokenOnlyAsTrailingSuffix ==
    (JustRan /\ fn = "parseFilters" /\ list /\ Truthy(LastValue)) =>
        \A field \in WhereFields(OwnClause(Entries[i - 1])) :
            \E S \in Suffixes : EndsWith(LastKey, S) /\ field = DropSuffix(LastKey, S)

(* ------------------------------------------------------------------ *)
(* Suffix dispatch                                                     *)
(* ------------------------------------------------------------------ *)
(* c is the clause that the branch of suffix S gives for the string v   *)
(* on field f                                                          *)
IsClauseOfSuffix(c, S, f, v) ==
    CASE S = S_in -> c.op = "in" /\ IsSplitOf(c.arg, v, Pipe)
      [] S \in {S_nin, S_ne} -> c.op = "notIn" /\ IsSplitOf(c.arg, v, Pipe)
      [] S = S_con -> c = Clause("iLike", Str(<<"%">> \o v.s \o <<"%">>))
      [] S = S_sw -> c = Clause("startsWith", v)
      [] S = S_ew -> c = Clause("endsWith", v)
      [] S = S_gte -> c = Clause("gte", v)
      [] S = S_lte -> c = Clause("lte", v)
      [] S = S_bet -> c.op = "between" /\ IsSplitOf(c.arg, v, Comma)
      [] S = S_is -> IF isDateField(f)
                     THEN /\ c.op = "between"
                          /\ c.arg.t = "arr"
                          /\ Len(c.arg.a) = 2
                          /\ \A j \in 1..2 : c.arg.a[j].t = "moment"
                     ELSE c = Clause("eq", v)

(* ------------------------------------------------------------------ *)
(* C24: suffix dispatch in parseFilters (src/unnamed/part_009) has no   *)
(* collisions: in list mode, for every allowed field f without a double *)
(* underscore, every suffix S of the ten and every non-empty string v,  *)
(* after the callback has run on key f + S the predicate holds on f the *)
(* clause of the branch of S, and the key alone yields a clause on f    *)
(* and on no other field.                                               *)
(* ------------------------------------------------------------------ *)
C24_NoDispatchCollision ==
    \A f \in AllowedFields, S \in Suffixes :
        (RanOperatorKey(f, S) /\ copy = "part_009" /\ ~Includes(f, DoubleUnderscore)) =>
            /\ WhereFields(OwnClause(Entries[i - 1])) = {f}
            /\ HasField(filters.where, f)
            /\ IsClauseOfSuffix(WhereGet(filters.where, f), S, f, LastValue)

(* name__con = 'john' returned as name iLike '%john%' *)
C24_Witness ==
    /\ pc = "done"
    /\ fn = "parseFilters"
    /\ copy = "part_009"
    /\ list
    /\ query.t = "obj"
    /\ Len(Entries) = 1
    /\ Get(Entries, F_name \o S_con) = V_john
    /\ WhereGet(result.where, F_name) = Clause("iLike", Str(<<"%", "j", "o", "h", "n", "%">>))

(* ------------------------------------------------------------------ *)
(* C25: parseFilters supports the strict comparisons of the project     *)
(* rules: in list mode, for every allowed field f and truthy value v,   *)
(* after the callback has run on key f__gt the clause on f is a         *)
(* greater-than comparison with v, and after it has run on f__lt it is  *)
(* a less-than comparison with v.                                       *)
(* ------------------------------------------------------------------ *)
C25_StrictComparisons ==
    \A f \in AllowedFields :
        (JustRan /\ fn = "parseFilters" /\ list /\ Truthy(LastValue)) =>
            /\ LastKey = f \o S_gt => WhereGet(filters.where, f) = Clause("gt", LastValue)
            /\ LastKey = f \o S_lt => WhereGet(filters.where, f) = Clause("lt", LastValue)

(* ------------------------------------------------------------------ *)
(* Partial spec                                                        *)
(* ------------------------------------------------------------------ *)
(* the query cut before the key at which forEach stopped *)
KeysBefore == Obj(SubSeq(Entries, 1, i - 1))

(* what the entry point in use returns for the query q *)
CallOn(q) ==
    IF fn = "parseFilters" THEN parseFiltersCall(copy, q, list, filterable_attributes)
    ELSE parseFiltersIncludeCall(q, list, filterable_attributes)

PageKeyBefore == \E j \in 1..(i - 1) : Entries[j].k = K_page

WithoutOffset(f) == [f EXCEPT !.offset = Undefined]

(* ------------------------------------------------------------------ *)
(* C26: when compiling a key raises an exception, the call returns the  *)
(* partial spec accumulated so far: clauses, sort, projection, limit    *)
(* and relations are those that the keys before the failing key give    *)
(* on their own, the offset is the one that a page key among them has   *)
(* computed from the page and size of the query, and nothing comes from *)
(* the failing key or from the keys after it.                           *)
(* ------------------------------------------------------------------ *)
C26_PartialSpecOnException ==
    (pc = "done" /\ logged /\ ~KeysThrows(query)) =>
        /\ i <= Len(Entries)
        /\ WithoutOffset(result) = WithoutOffset(CallOn(KeysBefore))
        /\ result.offset =
              IF list /\ PageKeyBefore
              THEN Times(ToNumber(Get(Entries, K_page)), ToNumber(Get(Entries, K_size)))
              ELSE Undefined

(* age__gte = 18 then name__in = 5: the split of a number raises and    *)
(* the clause on age is returned                                        *)
C26_Witness ==
    /\ pc = "done"
    /\ logged
    /\ fn = "parseFilters"
    /\ copy = "part_009"
    /\ list
    /\ query.t = "obj"
    /\ i = 2
    /\ Entries[1] = Entry(F_age \o S_gte, Num(18))
    /\ Entries[2] = Entry(F_name \o S_in, Num(5))
    /\ result.where = <<Entry(F_age, Clause("gte", Num(18)))>>

(* ------------------------------------------------------------------ *)
(* Falsy values                                                        *)
(* ------------------------------------------------------------------ *)
(* 0, the empty string and false *)
FalsyNotNull(v) ==
    \/ v.t = "num" /\ v.n = 0
    \/ v.t = "str" /\ v.s = <<>>
    \/ v.t = "bool" /\ ~v.b

ReservedKeys == {K_sort, K_attributes, K_page, K_size}

(* a filter key whose value is falsy and not null *)
FalsyFilterEntry(e) == e.k \notin ReservedKeys /\ FalsyNotNull(e.v)

NotFalsyFilterEntry(e) == ~FalsyFilterEntry(e)

(* ------------------------------------------------------------------ *)
(* C27: in list mode of parseFilters a filter key whose value is falsy  *)
(* but not null (0, the empty string, false) contributes no clause,     *)
(* whatever its suffix, __is included: the call returns the spec of the *)
(* query without these keys, so no comparison and no IS NULL clause     *)
(* comes from them.                                                     *)
(* ------------------------------------------------------------------ *)
C27_FalsyValueContributesNothing ==
    (pc = "done" /\ fn = "parseFilters" /\ list /\ query.t = "obj") =>
        result = parseFiltersCall(copy, Obj(SelectSeq(Entries, NotFalsyFilterEntry)),
                                  list, filterable_attributes)

(* name__is = 0 beside age__lte = 65: the clause on age alone *)
C27_Witness ==
    /\ pc = "done"
    /\ fn = "parseFilters"
    /\ copy = "part_009"
    /\ list
    /\ query.t = "obj"
    /\ Allowed(F_name)
    /\ Get(Entries, F_name \o S_is) = Num(0)
    /\ Get(Entries, F_age \o S_lte) = Num(65)
    /\ result.where = <<Entry(F_age, Clause("lte", Num(65)))>>

(* ------------------------------------------------------------------ *)
(* C28: relation filters nest at every level: parseFiltersInclude in    *)
(* list mode, in a call in which no key raises, gives for an            *)
(* include_<inner> key with a truthy value inside the nested mapping of *)
(* an include_<outer> key a relation entry <inner> inside the child     *)
(* spec of <outer>; the call returns for every finite nested query.     *)
(* ------------------------------------------------------------------ *)
C28_NestedRelationsAtEveryDepth ==
    (pc = "done" /\ fn = "parseFiltersInclude" /\ list /\ query.t = "obj" /\ ~logged)
        => \A j \in 1..Len(Entries) :
              (IsIncludeKey(Entries[j].k) /\ Entries[j].v.t = "obj" /\ ~NestedRaises(Entries[j].v))
                 => /\ HasRelation(result, RelationName(Entries[j].k))
                    /\ \A n \in 1..Len(Entries[j].v.o) :
                          (IsIncludeKey(Entries[j].v.o[n].k) /\ Truthy(Entries[j].v.o[n].v))
                             => HasRelation(RelationSpec(result, RelationName(Entries[j].k)),
                                            RelationName(Entries[j].v.o[n].k))

(* ------------------------------------------------------------------ *)
(* The fragment shared by the two entry points                         *)
(* ------------------------------------------------------------------ *)
(* the suffixes that parseFilters alone knows *)
FiltersOnlySuffixes == {S_lte, S_gte, S_nin, S_bet}

(* a date field of any of the three date lists *)
InSomeDateList(field) ==
    \/ isDateField(field)
    \/ ArrIncludes(inlineDateFields, field)
    \/ ArrIncludes(includeDateFields, field)

(* no include_ key, no null or undefined value, no operator of          *)
(* parseFilters alone, and no __is key on a date field                  *)
SharedFragment ==
    \A j \in 1..Len(Entries) :
        /\ ~IsIncludeKey(Entries[j].k)
        /\ ~LooseEqNull(Entries[j].v)
        /\ \A S \in FiltersOnlySuffixes : ~Includes(Entries[j].k, S)
        /\ Includes(Entries[j].k, S_is) => ~InSomeDateList(RemoveFirst(Entries[j].k, S_is))

(* ------------------------------------------------------------------ *)
(* C29: the two entry points agree on their shared fragment: for every  *)
(* query without include_ key, without null value, and whose operator   *)
(* keys use only __in, __con, __sw, __ew, __is, __ne on fields that are *)
(* not date fields, parseFilters (either copy) and parseFiltersInclude  *)
(* return equal specs, in list mode and in single mode.                 *)
(* ------------------------------------------------------------------ *)
C29_EntryPointsAgree ==
    (pc = "done" /\ SharedFragment) =>
        IF fn = "parseFilters"
        THEN result = parseFiltersIncludeCall(query, list, filterable_attributes)
        ELSE \A c \in Copies : result = parseFiltersCall(c, query, list, filterable_attributes)

(* page = 2, size = 50, name__in = 'a|b' compiled by parseFiltersInclude *)
C29_Witness ==
    /\ pc = "done"
    /\ fn = "parseFiltersInclude"
    /\ list
    /\ query.t = "obj"
    /\ SharedFragment
    /\ Get(Entries, K_page) = Num(2)
    /\ Get(Entries, K_size) = Num(50)
    /\ Get(Entries, F_name \o S_in) = V_ab
    /\ result.offset = Num(100)
    /\ result.limit = Num(50)
    /\ WhereGet(result.where, F_name) = Clause("in", Arr(<<Str(<<"a">>), Str(<<"b">>)>>))

(* ------------------------------------------------------------------ *)
(* One clause per field                                                *)
(* ------------------------------------------------------------------ *)
(* the predicate that the callback of the entry point in use builds     *)
(* from the entry e alone                                               *)
ClauseAlone(e) ==
    Callback(copy, fn, EmptyFilters, Entries, e.k, list, filterable_attributes).val.where

(* the keys that have run and resolve to the field g *)
RanOnField(g) == { n \in 1..(i - 1) : g \in WhereFields(ClauseAlone(Entries[n])) }

Latest(S) == CHOOSE x \in S : \A y \in S : y <= x

(* ------------------------------------------------------------------ *)
(* C30: the predicate holds at most one clause per field and the last   *)
(* key wins: after any number of keys run by the loop of either entry   *)
(* point, no two entries of the predicate are on the same field, every  *)
(* field that a key run so far resolves to has an entry, and the entry  *)
(* of a field is exactly the clause of the last key run so far that     *)
(* resolves to it; the predicate returned is the one built.             *)
(* ------------------------------------------------------------------ *)
C30_OneClausePerFieldLastWins ==
    /\ (query.t = "obj" /\ pc = "forEach") =>
          /\ \A a, b \in 1..Len(filters.where) :
                a # b => filters.where[a].k # filters.where[b].k
          /\ \A n \in 1..(i - 1) :
                WhereFields(ClauseAlone(Entries[n])) \subseteq WhereFields(filters.where)
          /\ \A g \in WhereFields(filters.where) :
                LET ran == RanOnField(g)
                IN /\ ran # {}
                   /\ WhereGet(filters.where, g) = WhereGet(ClauseAlone(Entries[Latest(ran)]), g)
    /\ pc = "done" => result.where = filters.where

(* name__in = 'a|b' then name__is = 'a': the one clause on name is the  *)
(* equality of the later key                                            *)
C30_Witness ==
    /\ pc = "done"
    /\ fn = "parseFilters"
    /\ list
    /\ query.t = "obj"
    /\ HasKey(F_name \o S_in)
    /\ HasKey(F_name \o S_is)
    /\ KeyIndex(F_name \o S_in) < KeyIndex(F_name \o S_is)
    /\ Get(Entries, F_name \o S_in) = V_ab
    /\ Get(Entries, F_name \o S_is) = V_a
    /\ result.where = <<Entry(F_name, Clause("eq", V_a))>>

====
